---- MODULE Spec2Model ----
(***************************************************************************)
(* zabwrap.py: a wrapper that walks the ZFS filesystems of a host, reads   *)
(* their autobackup:* / zab:* properties and runs zfs-autobackup for each  *)
(* destination, guarded by a lock marker file.                             *)
(*                                                                         *)
(* Strings the program transforms (filesystem names, property values) are  *)
(* sequences of one-character strings, so that replace / split / strip /   *)
(* substring tests are computed as Python computes them.  Strings that are *)
(* only passed along (retention specs, status words) are TLA+ strings.     *)
(* Output of external commands is drawn nondeterministically at the point  *)
(* where the program runs the command.  Purely informational prints (the   *)
(* debug line, the dry-run command echo, captured stdout/stderr) are left  *)
(* out; the reports the program makes about a filesystem are kept.         *)
(***************************************************************************)
EXTENDS Integers, Sequences, FiniteSets, TLC

\* ------------------------------------------------------------------ bounds
MaxFs == 2
MaxDests == 2
NumProcs == 3
WorkLen == 2

\* ------------------------------------------------- Python string functions
NL == <<"\n">>

Replace(s, a, b) == [k \in 1..Len(s) |-> IF s[k] = a THEN b ELSE s[k]]

to_lowercase(c) ==
  CASE c = "A" -> "a"
    [] c = "B" -> "b"
    [] c = "P" -> "p"
    [] OTHER -> c

ReSubLower(s) == [k \in 1..Len(s) |-> to_lowercase(s[k])]

RECURSIVE Split(_, _)
Split(s, sep) ==
  IF \A k \in 1..Len(s) : s[k] # sep
    THEN <<s>>
    ELSE LET k == CHOOSE n \in 1..Len(s) :
                    s[n] = sep /\ \A j \in 1..(n - 1) : s[j] # sep
         IN  <<SubSeq(s, 1, k - 1)>> \o Split(SubSeq(s, k + 1, Len(s)), sep)

RECURSIVE LStrip(_, _)
LStrip(s, chars) ==
  IF s # <<>> /\ s[1] \in chars THEN LStrip(Tail(s), chars) ELSE s

RECURSIVE RStrip(_, _)
RStrip(s, chars) ==
  IF s # <<>> /\ s[Len(s)] \in chars
    THEN RStrip(SubSeq(s, 1, Len(s) - 1), chars) ELSE s

Strip(s, chars) == RStrip(LStrip(s, chars), chars)

Whitespace == {" ", "\n", "\t"}

Contains(s, sub) ==
  \E k \in 0..(Len(s) - Len(sub)) : SubSeq(s, k + 1, k + Len(sub)) = sub

RECURSIVE Join(_, _)
Join(parts, sep) ==
  IF parts = <<>> THEN <<>>
  ELSE IF Len(parts) = 1 THEN parts[1]
  ELSE parts[1] \o sep \o Join(Tail(parts), sep)

SeqsUpTo(S, n) == UNION {[1..m -> S] : m \in 0..n}

Last(s) == s[Len(s)]

\* ------------------------------------------------------- program constants
S_true    == <<"t","r","u","e">>
S_scratch == <<"s","c","r","a","t","c","h">>
S_sandbox == <<"s","a","n","d","b","o","x">>
S_one     == <<"o","n","e">>
S_r2      == <<"r","2">>
S_r1      == <<"r","1">>
S_r0      == <<"r","0">>
S_raid_sandbox == <<"r","a","i","d","-">> \o S_sandbox

BACKUP_TYPES ==
  (S_one :> "175,1h5d,1w1y") @@ (S_r2 :> "652,1h10d,1d1y") @@
  (S_r1 :> "651,1h10d,1d1y") @@ (S_r0 :> "0") @@
  (S_sandbox :> "250,1h10d") @@ (S_raid_sandbox :> "10,1h10d") @@
  (S_scratch :> "")


S_autobackup == <<"a","u","t","o","b","a","c","k","u","p",":">>

\* --------------------------------------------------- the outside world
\* Filesystem names known to the pool.
FsNames == { <<"P","/","a">>, <<"b">> }

\* What `zfs get -o value <inclusion property>` can print.
InclOutputs ==
  { S_true \o NL, <<"f","a","l","s","e">> \o NL, <<"u","n">> \o S_true \o NL,
    <<"-">> \o NL, <<>> }

\* What `zfs get -o value zab:backuptype` can print.
TypeOutputs ==
  { k \o NL : k \in { S_r1, S_r0, S_sandbox, S_raid_sandbox, S_scratch,
                      <<"-">>, <<"x">> \o S_scratch } }

\* Entries an administrator may write in zab:server, well formed or not.
Entries ==
  { <<"h",":","d","-","a">>, <<"g",":","b">>, <<"h","o","n","l","y">>,
    <<"h",":","p",":","x">> }

EntryLists == SeqsUpTo(Entries, MaxDests) \ {<<>>}

\* The value of zab:server holding the entries es, as zfs get prints it.
ServerOutput(es) == Join(es, <<",">>) \o NL

\* `zfs list -Hp -o name` prints each filesystem once, one per line.
Listings == { l \in SeqsUpTo(FsNames, MaxFs) :
                \A a, b \in 1..Len(l) : a # b => l[a] # l[b] }

ListOutput(l) == IF l = <<>> THEN <<>> ELSE Join(l, NL) \o NL

\* Exit codes of zfs-autobackup.
ExitCodes == {0, 1}

\* --------------------------------------------------------- program logic
\* Command-line tokens: a literal of the script or a computed string.
Lit(x) == [s |-> x, v |-> <<>>]
Var(x) == [s |-> "", v |-> x]

\* acquire_lock: m is the marker file (0 = absent, else the pid written).
acquire_lock(m, pid) ==
  IF m # 0 THEN [ok |-> FALSE, marker |-> m]
           ELSE [ok |-> TRUE, marker |-> pid]

\* release_lock: the marker is removed if it is there.
release_lock(m) == IF m # 0 THEN 0 ELSE m

\* Keys of a dict filled in the order of ks.
RECURSIVE DictKeys(_)
DictKeys(ks) ==
  IF ks = <<>> THEN <<>>
  ELSE LET init == DictKeys(SubSeq(ks, 1, Len(ks) - 1))
       IN  IF \E k \in 1..Len(init) : init[k] = Last(ks)
             THEN init ELSE Append(init, Last(ks))

get_zfs_fs_list(stdout) ==
  SelectSeq(DictKeys(Split(stdout, "\n")), LAMBDA k : k # <<>>)

Normalize(fs) == ReSubLower(Replace(fs, "/", "-"))

ZabProp(fs) == ReSubLower(S_autobackup \o Replace(fs, "/", "-"))

Included(backupsfs) == Contains(backupsfs, S_true)

Dispatch(backupfstype) ==
  IF backupfstype \in DOMAIN BACKUP_TYPES
    THEN IF backupfstype = S_scratch THEN "scratch"
         ELSE IF backupfstype = S_sandbox THEN "sandbox"
         ELSE "remote"
    ELSE "unknown"

\* Variant: the first two parts are taken, further parts ignored.
UnpacksAtLeastTwo(parts) == Len(parts) >= 2

\* `server, path = server.split(':')` raises ValueError unless two parts.
Unpacks(parts) == Len(parts) = 2

BackupServers(stdout) == Split(Strip(stdout, {"[", " ", "]", "\n"}), ",")

\* Variant: host and path handed over in each other's place.
run_backup_command_swapped(zabselect, server, retention, path, incl_snap) ==
  << Lit("/usr/local/bin/zfs-autobackup"), Var(zabselect), Var(server),
     Lit("--verbose"), Lit("--keep-source"), Lit(retention),
     Lit("--ssh-target"), Var(path), Lit("--keep-target"), Lit(retention),
     Lit("--strip-path"), Lit("1"), Lit("--other-snapshots"),
     Lit("--strip-path"), Lit("1"), Lit("--destroy-incompatible") >>
  \o (IF incl_snap THEN <<Lit("--other-snapshots")>> ELSE <<>>)

run_backup_command(zabselect, server, retention, path, incl_snap) ==
  << Lit("/usr/local/bin/zfs-autobackup"), Var(zabselect), Var(path),
     Lit("--verbose"), Lit("--keep-source"), Lit(retention),
     Lit("--ssh-target"), Var(server), Lit("--keep-target"), Lit(retention),
     Lit("--strip-path"), Lit("1"), Lit("--other-snapshots"),
     Lit("--strip-path"), Lit("1"), Lit("--destroy-incompatible") >>
  \o (IF incl_snap THEN <<Lit("--other-snapshots")>> ELSE <<>>)

run_sandbox_command(zabselect, retention) ==
  << Lit("/usr/local/bin/zfs-autobackup"), Var(zabselect),
     Lit("--verbose"), Lit("--keep-source"), Lit(retention) >>

\* Variant: the dry-run branch is missing.
run_backup_status_no_dry(dry, rc) ==
  IF rc = 0 THEN [status |-> "success", message |-> "Backup successful"]
  ELSE [status |-> "failed", message |-> "Backup failed: stderr"]

\* Status word and message run_backup hands to set_backup_property.
run_backup_status(dry, rc) ==
  IF dry THEN [status |-> "dry-run", message |-> "No actual backup performed"]
  ELSE IF rc = 0 THEN [status |-> "success", message |-> "Backup successful"]
  ELSE [status |-> "failed", message |-> "Backup failed: stderr"]

run_sandbox_status(dry, rc) ==
  IF dry THEN [status |-> "dry-run", message |-> "No actual backup performed"]
  ELSE IF rc = 0 THEN [status |-> "success", message |-> "Backup successful"]
  ELSE [status |-> "failed", message |-> "Backup failed: stderr"]

\* Variant: a filesystem without inclusion tag is an orphan whatever its type.
orphan_report_type_blind(zfsautobackup, backupfstype) ==
  IF ~zfsautobackup THEN "undefined"
  ELSE IF Contains(backupfstype, S_scratch) THEN "scratch" ELSE "none"

\* The report check_orphans makes: "scratch", "undefined" or "none".
orphan_report(zfsautobackup, backupfstype) ==
  IF ~zfsautobackup
    THEN IF Contains(backupfstype, S_scratch) THEN "scratch" ELSE "undefined"
    ELSE IF Contains(backupfstype, S_scratch) THEN "scratch" ELSE "none"


\* ------------------------------------------------------------------ state
VARIABLES
  marker,            \* the lock marker file: 0 = absent, else the pid in it
  pc,                \* single run: position of the script
  exitcode,          \* single run: process exit code
  lockmsg,           \* single run: last message of acquire_lock/release_lock
  dry_run, orphans, limit, include_snapshots,   \* parsed arguments
  result,            \* the filesystems zabwrap iterates over
  i,                 \* index in result of the filesystem being processed
  cur,               \* what was read about the filesystem last visited
  servers, si,       \* backupServers and the index of the entry in turn
  events,            \* reports and invocations made for that filesystem
  lastbackup,        \* zab:lastbackup of every filesystem
  writes,            \* calls of set_backup_property for that filesystem
  ppc, pdone, pexit  \* several runs: position, filesystems done, exit code

runvars == <<pc, exitcode, lockmsg, dry_run, orphans, limit, include_snapshots,
             result, i, cur, servers, si, events, lastbackup, writes>>
lockvars == <<ppc, pdone, pexit>>
vars == <<marker, runvars, lockvars>>

Procs == 1..NumProcs

Report(msg, arg, logged) ==
  [type |-> "report", msg |-> msg, arg |-> arg, logged |-> logged,
   cmd |-> <<>>, executed |-> FALSE, rc |-> 0]

Invoke(cmd, executed, rc) ==
  [type |-> "invoke", msg |-> "", arg |-> <<>>, logged |-> FALSE,
   cmd |-> cmd, executed |-> executed, rc |-> rc]

\* zab:lastbackup as an earlier run left it.
PrevStatus == [status |-> "failed", message |-> "Backup failed: earlier"]

NoCur ==
  [fs |-> <<>>, zabprop |-> <<>>, backupsfs |-> <<>>, autobackup |-> FALSE,
   typeRead |-> FALSE, backupfstype |-> <<>>,
   serverRead |-> FALSE, entries |-> <<>>]

\* Variant: a status already written by this run is kept.
set_backup_property_once(fs, st, n) ==
  /\ lastbackup' = IF lastbackup[fs] = PrevStatus
                     THEN [lastbackup EXCEPT ![fs] =
                             [status |-> st.status, message |-> st.message]]
                     ELSE lastbackup
  /\ writes' = n + 1

\* set_backup_property(fs, status, message); the timestamp is left out.
set_backup_property(fs, st, n) ==
  /\ lastbackup' = [lastbackup EXCEPT ![fs] =
                      [status |-> st.status, message |-> st.message]]
  /\ writes' = n + 1

RunInit ==
  /\ pc = "start" /\ exitcode = 0 /\ lockmsg = ""
  /\ dry_run \in BOOLEAN /\ orphans \in BOOLEAN
  /\ include_snapshots \in BOOLEAN
  /\ limit \in SeqsUpTo(FsNames, MaxFs)
  /\ result = <<>> /\ i = 0 /\ cur = NoCur
  /\ servers = <<>> /\ si = 0 /\ events = <<>>
  /\ lastbackup = [f \in FsNames |-> PrevStatus]
  /\ writes = 0

LockIdle ==
  /\ ppc = [p \in Procs |-> "idle"]
  /\ pdone = [p \in Procs |-> 0]
  /\ pexit = [p \in Procs |-> 0]

\* One run of the script; the marker of another run may be present.
Init == marker \in {0, 2} /\ RunInit /\ LockIdle

\* __main__: acquire_lock(lockfile); sys.exit(1) unwinds into the finally.
AcquireLock ==
  /\ pc = "start"
  /\ LET r == acquire_lock(marker, 1)
     IN  /\ marker' = r.marker
         /\ IF r.ok
              THEN pc' = "main" /\ lockmsg' = "Lock acquired" /\ exitcode' = exitcode
              ELSE pc' = "finally" /\ lockmsg' = "Another instance"
                   /\ exitcode' = 1
  /\ UNCHANGED <<dry_run, orphans, limit, include_snapshots, result, i, cur,
                 servers, si, events, lastbackup, writes, lockvars>>

\* zabwrap: result = get_zfs_fs_list() if not limit else limit
ZabwrapStart ==
  /\ pc = "main"
  /\ \E l \in Listings :
       result' = IF limit = <<>> THEN get_zfs_fs_list(ListOutput(l)) ELSE limit
  /\ i' = 1 /\ pc' = "loop"
  /\ UNCHANGED <<marker, exitcode, lockmsg, dry_run, orphans, limit,
                 include_snapshots, cur, servers, si, events, lastbackup,
                 writes, lockvars>>

\* zabwrap, backup mode: one filesystem up to the loop over its destinations.
ProcessFs ==
  /\ pc = "loop" /\ ~orphans /\ i <= Len(result)
  /\ LET fs == result[i]
         zabselect == Normalize(fs)
         base == [NoCur EXCEPT !.fs = fs, !.zabprop = ZabProp(fs)]
     IN \E bo \in InclOutputs :
        LET backupsfs == Strip(bo, Whitespace)
            c1 == [base EXCEPT !.backupsfs = backupsfs,
                               !.autobackup = Included(backupsfs)]
        IN
        IF ~Included(backupsfs)
          THEN /\ cur' = c1 /\ events' = <<>> /\ pc' = "next"
               /\ writes' = 0
               /\ UNCHANGED <<servers, si, lastbackup>>
          ELSE \E to \in TypeOutputs :
            LET backupfstype == Strip(to, Whitespace)
                c2 == [c1 EXCEPT !.typeRead = TRUE,
                                 !.backupfstype = backupfstype]
                d == Dispatch(backupfstype)
            IN
            \/ /\ d = "scratch"
               /\ cur' = c2 /\ events' = <<Report("scratch", fs, FALSE)>>
               /\ pc' = "next"
               /\ writes' = 0
               /\ UNCHANGED <<servers, si, lastbackup>>
            \/ /\ d = "unknown"
               /\ cur' = c2 /\ events' = <<Report("unknown type", fs, TRUE)>>
               /\ pc' = "next"
               /\ writes' = 0
               /\ UNCHANGED <<servers, si, lastbackup>>
            \/ /\ d = "sandbox"
               /\ \E rc \in (IF dry_run THEN {0} ELSE ExitCodes) :
                    /\ events' = << Invoke(run_sandbox_command(zabselect,
                                             BACKUP_TYPES[S_sandbox]),
                                           ~dry_run, rc) >>
                    /\ set_backup_property(fs, run_sandbox_status(dry_run, rc), 0)
               /\ cur' = c2 /\ pc' = "next"
               /\ UNCHANGED <<servers, si>>
            \/ /\ d = "remote"
               /\ \E es \in EntryLists :
                    /\ servers' = BackupServers(ServerOutput(es))
                    /\ cur' = [c2 EXCEPT !.serverRead = TRUE, !.entries = es]
               /\ si' = 1 /\ pc' = "dest" /\ events' = <<>> /\ writes' = 0
               /\ UNCHANGED lastbackup
  /\ UNCHANGED <<marker, exitcode, lockmsg, dry_run, orphans, limit,
                 include_snapshots, result, i, lockvars>>

\* Variant: a failed backup ends the loop over the filesystems.
ProcessDestAbort ==
  /\ pc = "dest"
  /\ LET fs == result[i]
         entry == servers[si]
         parts == Split(entry, ":")
         goOn == IF si = Len(servers)
                   THEN pc' = "next" /\ si' = 0 /\ servers' = <<>>
                   ELSE pc' = pc /\ si' = si + 1 /\ servers' = servers
     IN IF ~Unpacks(parts)
          THEN /\ events' = Append(events, Report("zab:server error", entry, TRUE))
               /\ goOn
               /\ UNCHANGED <<lastbackup, writes>>
          ELSE \E rc \in (IF dry_run THEN {0} ELSE ExitCodes) :
                 /\ events' = Append(events,
                      Invoke(run_backup_command(Normalize(fs), parts[1],
                               BACKUP_TYPES[cur.backupfstype],
                               Replace(parts[2], "-", "/"), include_snapshots),
                             ~dry_run, rc))
                 /\ set_backup_property(fs, run_backup_status(dry_run, rc), writes)
                 /\ IF rc # 0
                      THEN pc' = "finally" /\ si' = 0 /\ servers' = <<>>
                      ELSE goOn
  /\ UNCHANGED <<marker, exitcode, lockmsg, dry_run, orphans, limit,
                 include_snapshots, result, i, cur, lockvars>>

\* zabwrap: one pass of `for server in backupServers`.
ProcessDest ==
  /\ pc = "dest"
  /\ LET fs == result[i]
         entry == servers[si]
         parts == Split(entry, ":")
     IN IF ~Unpacks(parts)
          THEN /\ events' = Append(events, Report("zab:server error", entry, TRUE))
               /\ UNCHANGED <<lastbackup, writes>>
          ELSE LET server == parts[1]
                   path == Replace(parts[2], "-", "/")
                   retention == BACKUP_TYPES[cur.backupfstype]
               IN \E rc \in (IF dry_run THEN {0} ELSE ExitCodes) :
                    /\ events' = Append(events,
                         Invoke(run_backup_command(Normalize(fs), server,
                                  retention, path, include_snapshots),
                                ~dry_run, rc))
                    /\ set_backup_property(fs, run_backup_status(dry_run, rc), writes)
  /\ IF si = Len(servers)
       THEN pc' = "next" /\ si' = 0 /\ servers' = <<>>
       ELSE pc' = pc /\ si' = si + 1 /\ servers' = servers
  /\ UNCHANGED <<marker, exitcode, lockmsg, dry_run, orphans, limit,
                 include_snapshots, result, i, cur, lockvars>>

\* zabwrap, orphans mode: check_orphans(fs, result)
CheckOrphans ==
  /\ pc = "loop" /\ orphans /\ i <= Len(result)
  /\ LET fs == result[i]
     IN \E to \in TypeOutputs, vals \in [1..Len(result) -> InclOutputs] :
        LET backupfstype == Strip(to, Whitespace)
            zfsautobackup ==
              \E j \in 1..Len(result) :
                 Contains(Strip(vals[j], Whitespace), S_true)
            rep == orphan_report(zfsautobackup, backupfstype)
        IN /\ cur' = [NoCur EXCEPT !.fs = fs,
                                   !.autobackup = zfsautobackup,
                                   !.typeRead = TRUE,
                                   !.backupfstype = backupfstype]
           /\ events' = IF rep = "scratch"
                          THEN <<Report("scratch", fs, FALSE)>>
                        ELSE IF rep = "undefined"
                          THEN <<Report("not defined", fs, TRUE)>>
                        ELSE <<>>
  /\ pc' = "next" /\ writes' = 0
  /\ UNCHANGED <<marker, exitcode, lockmsg, dry_run, orphans, limit,
                 include_snapshots, result, i, servers, si, lastbackup,
                 lockvars>>

\* `for fs in result` moves on; what is recorded per filesystem starts anew.
NextFs ==
  /\ pc = "next"
  /\ pc' = "loop" /\ i' = i + 1
  /\ cur' = NoCur /\ events' = <<>> /\ writes' = 0
  /\ UNCHANGED <<marker, exitcode, lockmsg, dry_run, orphans, limit,
                 include_snapshots, result, servers, si, lastbackup,
                 lockvars>>

\* zabwrap returns; control reaches the finally clause.
ZabwrapReturn ==
  /\ pc = "loop" /\ i > Len(result)
  /\ pc' = "finally"
  /\ UNCHANGED <<marker, exitcode, lockmsg, dry_run, orphans, limit,
                 include_snapshots, result, i, cur, servers, si, events,
                 lastbackup, writes, lockvars>>

\* finally: release_lock(lockfile)
ReleaseLock ==
  /\ pc = "finally"
  /\ marker' = release_lock(marker)
  /\ lockmsg' = IF marker # 0 THEN "Lock released" ELSE lockmsg
  /\ pc' = "done"
  /\ UNCHANGED <<exitcode, dry_run, orphans, limit, include_snapshots, result,
                 i, cur, servers, si, events, lastbackup, writes, lockvars>>

Next ==
  \/ AcquireLock
  \/ ZabwrapStart
  \/ ProcessFs
  \/ ProcessDest
  \/ CheckOrphans
  \/ NextFs
  \/ ZabwrapReturn
  \/ ReleaseLock

Spec == Init /\ [][Next]_vars


\* ------------------------------------------- several runs of the script
\* Each process is one invocation of the script.  Its filesystem processing
\* is counted only; the check and the creation of the marker are one step.
LockInit == marker = 0 /\ LockIdle /\ RunInit /\ ~dry_run /\ ~orphans
            /\ ~include_snapshots /\ limit = <<>>

\* __main__: acquire_lock(lockfile); sys.exit(1) unwinds into the finally.
PAcquire(p) ==
  /\ ppc[p] = "idle"
  /\ LET r == acquire_lock(marker, p)
     IN  /\ marker' = r.marker
         /\ IF r.ok
              THEN ppc' = [ppc EXCEPT ![p] = "zabwrap"] /\ pexit' = pexit
              ELSE ppc' = [ppc EXCEPT ![p] = "finally"]
                   /\ pexit' = [pexit EXCEPT ![p] = 1]
  /\ UNCHANGED <<pdone, runvars>>

\* zabwrap: one filesystem of the loop.
PWork(p) ==
  /\ ppc[p] = "zabwrap" /\ pdone[p] < WorkLen
  /\ pdone' = [pdone EXCEPT ![p] = @ + 1]
  /\ UNCHANGED <<marker, ppc, pexit, runvars>>

\* zabwrap returns.
PReturn(p) ==
  /\ ppc[p] = "zabwrap"
  /\ ppc' = [ppc EXCEPT ![p] = "finally"]
  /\ UNCHANGED <<marker, pdone, pexit, runvars>>

\* finally: release_lock(lockfile)
PRelease(p) ==
  /\ ppc[p] = "finally"
  /\ marker' = release_lock(marker)
  /\ ppc' = [ppc EXCEPT ![p] = "exited"]
  /\ UNCHANGED <<pdone, pexit, runvars>>

\* The process is killed; no finally clause runs.
PKill(p) ==
  /\ ppc[p] \in {"zabwrap", "finally"}
  /\ ppc' = [ppc EXCEPT ![p] = "killed"]
  /\ UNCHANGED <<marker, pdone, pexit, runvars>>

LockNext ==
  \E p \in Procs :
    \/ PAcquire(p)
    \/ PWork(p)
    \/ PReturn(p)
    \/ PRelease(p)
    \/ PKill(p)

LockSpec == LockInit /\ [][LockNext]_vars


\* ------------------------------------------------- vocabulary of the claims
InvokeCount(evs) == Cardinality({k \in 1..Len(evs) : evs[k].type = "invoke"})

Colons(e) == {k \in 1..Len(e) : e[k] = ":"}

\* An entry of the form host:path.
WellFormedEntry(e) == Cardinality(Colons(e)) = 1

HostOf(e) == SubSeq(e, 1, (CHOOSE k \in Colons(e) : TRUE) - 1)

PathOf(e) == SubSeq(e, (CHOOSE k \in Colons(e) : TRUE) + 1, Len(e))

Slashed(p) == [k \in 1..Len(p) |-> IF p[k] = "-" THEN "/" ELSE p[k]]

HasOpt(cmd, o) == \E k \in 1..Len(cmd) : cmd[k] = Lit(o)

OptValue(cmd, o) == cmd[(CHOOSE k \in 1..Len(cmd) : cmd[k] = Lit(o)) + 1]

\* The lowercase, hyphen-joined form of each filesystem name.
ExpectedSelector ==
  (<<"P","/","a">> :> <<"p","-","a">>) @@ (<<"b">> :> <<"b">>)

StatusWordOf(e) ==
  IF ~e.executed THEN "dry-run" ELSE IF e.rc = 0 THEN "success" ELSE "failed"

LastInvoke(evs) ==
  evs[CHOOSE k \in 1..Len(evs) :
        evs[k].type = "invoke"
        /\ \A j \in (k + 1)..Len(evs) : evs[j].type # "invoke"]

\* ------------------------------------------------------------------ claims

\* C1: at most one process at a time is between its successful acquire_lock
\* and its release_lock.
MutualExclusion ==
  Cardinality({p \in Procs :
                 \/ ppc[p] = "zabwrap"
                 \/ ppc[p] = "finally" /\ pexit[p] = 0}) <= 1

StaleMarker == marker # 0 /\ ppc[marker] = "killed"

\* C2: a marker left by a killed run is never removed by the program; while
\* it is there every program start fails acquire_lock with exit code 1 and
\* processes no filesystem.
StaleMarkerStays ==
  [][StaleMarker =>
       /\ marker' = marker
       /\ \A p \in Procs :
            (ppc[p] = "idle" /\ ppc'[p] # "idle")
              => (ppc'[p] = "finally" /\ pexit'[p] = 1 /\ pdone'[p] = 0)]_vars

\* C3: in backup mode a filesystem whose inclusion tag is anything but exactly
\* "true" gets no backup invocation and no last-status write.
NotExactlyTrueSkipped ==
  (~orphans /\ cur.fs # <<>> /\ cur.backupsfs # S_true)
    => (InvokeCount(events) = 0 /\ writes = 0)

\* C4: a filesystem of backup type "scratch" gets no backup invocation in
\* either mode, and in orphans mode it gets the scratch report, never the
\* "not defined" error.
ScratchNeverBackedUp ==
  /\ orphans => InvokeCount(events) = 0 /\ writes = 0
  /\ (cur.typeRead /\ cur.backupfstype = S_scratch)
       => /\ InvokeCount(events) = 0 /\ writes = 0 /\ ~cur.serverRead
          /\ events = <<Report("scratch", cur.fs, FALSE)>>

ScratchOrphanSeen ==
  /\ orphans /\ pc = "next" /\ ~cur.autobackup
  /\ cur.backupfstype = S_scratch

\* C5: of the entries of the destination tag of an included filesystem with
\* a remote type, each one that is not host:path gets one error report and
\* no invocation, and each well-formed one gets its invocation, in order.
MalformedEntrySkipped ==
  cur.serverRead =>
    /\ Len(events) <= Len(cur.entries)
    /\ pc = "next" => Len(events) = Len(cur.entries)
    /\ \A k \in 1..Len(events) :
         IF WellFormedEntry(cur.entries[k])
           THEN /\ events[k].type = "invoke"
                /\ OptValue(events[k].cmd, "--ssh-target")
                     = Var(HostOf(cur.entries[k]))
           ELSE events[k] = Report("zab:server error", cur.entries[k], TRUE)

MalformedThenWellFormedSeen ==
  /\ pc = "next" /\ cur.serverRead /\ Len(cur.entries) = 2
  /\ ~WellFormedEntry(cur.entries[1]) /\ WellFormedEntry(cur.entries[2])
  /\ Len(events) = 2

\* C6: in dry-run mode no backup command is executed and nothing but a
\* "dry-run" status is written to any filesystem's last-status tag.
DryRunOnlyRecords ==
  dry_run =>
    /\ \A k \in 1..Len(events) : ~events[k].executed
    /\ \A f \in FsNames :
         lastbackup[f] = PrevStatus \/ lastbackup[f].status = "dry-run"

DryRunTwoDestinationsSeen ==
  dry_run /\ pc = "next" /\ InvokeCount(events) = 2 /\ writes = 2

FailedJustNow ==
  /\ ~dry_run /\ events # <<>>
  /\ Last(events).type = "invoke" /\ Last(events).rc # 0

\* The number of steps the run has left is at most StepsLeft.
StepsLeft ==
  LET perFs == MaxDests + 3
  IN  CASE pc = "start" -> (MaxFs + 1) * perFs + 3
        [] pc = "main" -> (MaxFs + 1) * perFs + 2
        [] pc = "loop" -> 2 + (Len(result) + 1 - i) * perFs
        [] pc = "dest" -> 2 + (Len(result) + 1 - i) * perFs - si
        [] pc = "next" -> 2 + (Len(result) + 1 - i) * perFs - (MaxDests + 1)
        [] pc = "finally" -> 1
        [] OTHER -> 0

\* C7: in live mode a failed backup is recorded as "failed" and the run goes
\* on: every destination of the filesystem and every filesystem of the list
\* is still handled, and the run ends with the lock released (it never halts
\* before its end, and every step brings the end nearer).
FailureDoesNotStopRun ==
  /\ [](FailedJustNow => lastbackup[cur.fs].status = "failed")
  /\ []((pc = "next" /\ cur.serverRead) => Len(events) = Len(cur.entries))
  /\ []((pc \in {"finally", "done"} /\ exitcode = 0) => i = Len(result) + 1)
  /\ [](pc = "done" => marker = 0)
  /\ [](pc # "done" => ENABLED Next)
  /\ [][StepsLeft' < StepsLeft /\ StepsLeft' >= 0]_vars

FailureThenNextDestinationSeen ==
  /\ ~dry_run /\ pc = "next" /\ Len(events) = 2
  /\ events[1].type = "invoke" /\ events[1].rc # 0
  /\ events[2].type = "invoke"

\* C8: an included filesystem of type one, r2, r1 or r0 whose destination tag
\* lists well-formed host:path entries gets one invocation per entry, in
\* order, with the normalized name as selector, the entry's host, the entry's
\* path with hyphens turned into slashes, and the type's retention on both
\* sides.
OneInvocationPerEntry ==
  ( /\ cur.serverRead
    /\ cur.backupfstype \in {S_one, S_r2, S_r1, S_r0}
    /\ \A k \in 1..Len(cur.entries) : WellFormedEntry(cur.entries[k]) )
  =>
    /\ Len(events) <= Len(cur.entries)
    /\ pc = "next" => Len(events) = Len(cur.entries)
    /\ \A k \in 1..Len(events) :
         LET cmd == events[k].cmd
             en == cur.entries[k]
             ret == Lit(BACKUP_TYPES[cur.backupfstype])
         IN  /\ events[k].type = "invoke"
             /\ cmd[2] = Var(ExpectedSelector[cur.fs])
             /\ cmd[3] = Var(Slashed(PathOf(en)))
             /\ OptValue(cmd, "--ssh-target") = Var(HostOf(en))
             /\ OptValue(cmd, "--keep-source") = ret
             /\ OptValue(cmd, "--keep-target") = ret

TwoRemoteInvocationsSeen ==
  /\ pc = "next" /\ cur.serverRead /\ cur.backupfstype = S_r1
  /\ cur.fs = <<"P","/","a">>
  /\ cur.entries = << <<"h",":","d","-","a">>, <<"g",":","b">> >>
  /\ Len(events) = 2

\* C9: an included filesystem whose type is a table key containing "sandbox"
\* gets exactly one local-only invocation, without host and path, with the
\* type's own retention, and its destination tag is not read.
SandboxTypesLocalOnly ==
  ( /\ ~orphans /\ cur.autobackup /\ cur.typeRead
    /\ cur.backupfstype \in DOMAIN BACKUP_TYPES
    /\ Contains(cur.backupfstype, S_sandbox) )
  =>
    /\ ~cur.serverRead
    /\ pc = "next" =>
         /\ Len(events) = 1 /\ events[1].type = "invoke"
         /\ Len(events[1].cmd) = 5
         /\ ~HasOpt(events[1].cmd, "--ssh-target")
         /\ OptValue(events[1].cmd, "--keep-source")
              = Lit(BACKUP_TYPES[cur.backupfstype])

\* C10: after every invocation attempt the filesystem's last-status tag holds
\* the status word of that attempt, so it ends as the outcome of the last
\* attempt; a step that makes no attempt on a filesystem leaves its tag alone.
LastStatusIsLastAttempt ==
  /\ [](InvokeCount(events) > 0
          => /\ lastbackup[cur.fs].status = StatusWordOf(LastInvoke(events))
             /\ writes = InvokeCount(events))
  /\ [][\A f \in FsNames :
          lastbackup'[f] # lastbackup[f]
            => /\ i \in 1..Len(result) /\ f = result[i]
               /\ InvokeCount(events') = InvokeCount(events) + 1]_vars

LastOfTwoOutcomesSeen ==
  /\ ~dry_run /\ pc = "next" /\ i = 2 /\ result[1] # result[2]
  /\ Len(events) = 2 /\ events[1].type = "invoke" /\ events[1].rc = 0
  /\ events[2].type = "invoke" /\ events[2].rc # 0
  /\ lastbackup[result[2]].status = "failed"
  /\ lastbackup[result[1]] = PrevStatus

====
